---- MODULE Spec2Model ----
(***************************************************************************)
(* BrowserOS sidecar lifecycle supervisor (BrowserOSServerManager) and its *)
(* helpers (server_utils, ProcessController), as a state machine.          *)
(*                                                                         *)
(* Owner-thread handlers are single atomic actions.  Work posted to the    *)
(* thread pool is a task in `pool`; the reply it posts back to the owner   *)
(* thread is a message in `replies`.  The restart lambda runs              *)
(* TerminateBrowserOSProcess on the worker, which reads process_ and       *)
(* writes is_running_ without synchronisation: it is split into the steps  *)
(* WorkerTerminate / WorkerRevalidate so that every order the race allows  *)
(* is a behaviour.                                                         *)
(***************************************************************************)
EXTENDS Integers, Sequences, FiniteSets, Bags, TLC

(***************************************************************************)
(* Program constants                                                       *)
(***************************************************************************)
kMaxPortAttempts == 100
kMaxPort == 65535
kMaxStartupFailures == 3
kExitCodeSuccess == 0
kExitCodePortConflict == 2
kDefaultCDPPort == 9000
kDefaultMCPPort == 9100
kDefaultAgentPort == 9200
kDefaultExtensionPort == 9300
kWellKnownPortLimit == 1024
kUint16Modulus == 65536
kMaxHealthCheckFailures == 3

(***************************************************************************)
(* Bounds of the model                                                     *)
(***************************************************************************)
MaxLaunches == 2      \* processes spawned in one behaviour
MaxPool == 2          \* thread-pool tasks and replies in flight
MaxPrefWrites == 2    \* external writes of the two observed preferences
MaxProbes == 1        \* /health probes in flight
MaxCrashLaunches == 5 \* processes spawned in one crash-loop behaviour
MaxPid == 2           \* pids of the OS process table
MaxCreationTime == 2  \* process creation times
MaxHealthLaunches == 3 \* processes spawned in one health-check behaviour
MaxPolls == 3         \* polls of ProcessExists within the graceful timeout
MaxConns == 2         \* connections the proxy accepts in one behaviour
MaxRequests == 2      \* HTTP requests the proxy receives in one behaviour

(***************************************************************************)
(* Port negotiation (pure)                                                 *)
(***************************************************************************)
\* net::IsPortAllowedForScheme(port, "http"): the ports Chromium blocks and
\* that lie near the values the model draws.
RestrictedPorts == {2049, 6000, 10080}

IsPortValid(port) == port >= 0 /\ port <= kMaxPort

IsWellKnownPort(port) == port >= 0 /\ port < kWellKnownPortLimit

\* Variant of IsPortAvailable without the bind probe.
IsPortAvailable_NoBindProbe(port, occ) ==
    /\ IsPortValid(port) /\ port # 0
    /\ ~IsWellKnownPort(port)
    /\ port \notin RestrictedPorts

\* occ: the ports on which a bind probe fails (held by some process).
IsPortAvailable(port, occ) ==
    /\ IsPortValid(port) /\ port # 0
    /\ ~IsWellKnownPort(port)
    /\ port \notin RestrictedPorts
    /\ port \notin occ

RECURSIVE FindFrom(_, _, _, _)
\* The scan loop from iteration i on: it ends at the attempt limit or past
\* kMaxPort, skips an excluded port, and returns the first available one.
FindFrom(starting_port, i, excluded_ports, occ) ==
    IF i >= kMaxPortAttempts \/ starting_port + i > kMaxPort
    THEN starting_port
    ELSE IF /\ starting_port + i \notin excluded_ports
            /\ IsPortAvailable(starting_port + i, occ)
    THEN starting_port + i
    ELSE FindFrom(starting_port, i + 1, excluded_ports, occ)

\* Variant of FindAvailablePort that reports a failed scan as port 0.
FindAvailablePort_ZeroWhenExhausted(starting_port, excluded_ports, occ) ==
    LET port == FindFrom(starting_port, 0, excluded_ports, occ)
    IN IF port \in excluded_ports \/ ~IsPortAvailable(port, occ)
       THEN 0 ELSE port

FindAvailablePort(starting_port, excluded_ports, occ) ==
    FindFrom(starting_port, 0, excluded_ports, occ)

\* The four ports as a record.
Ports(c, m, a, e) == [cdp |-> c, mcp |-> m, agent |-> a, extension |-> e]

LoadPort(saved, default) == IF saved <= 0 THEN default ELSE saved

LoadPortsFromPrefs(p) ==
    Ports(LoadPort(p.cdp, kDefaultCDPPort), LoadPort(p.mcp, kDefaultMCPPort),
          LoadPort(p.agent, kDefaultAgentPort),
          LoadPort(p.extension, kDefaultExtensionPort))

ResolvePortsForStartup(p, occ) ==
    LET cdp == FindAvailablePort(p.cdp, {}, occ)
        mcp == p.mcp
        agent == FindAvailablePort(p.agent, {cdp, mcp}, occ)
        extension == FindAvailablePort(p.extension, {cdp, mcp, agent}, occ)
    IN Ports(cdp, mcp, agent, extension)

\* ov: the value of each --*-port switch as GetPortOverrideFromCommandLine
\* returns it (0: switch absent or invalid).
GetPortOverrideFromCommandLine(v) ==
    IF IsPortValid(v) /\ v > 0 THEN v ELSE 0

Override(v, current) ==
    IF GetPortOverrideFromCommandLine(v) > 0
    THEN GetPortOverrideFromCommandLine(v) ELSE current

ApplyCommandLineOverrides(p, ov) ==
    Ports(Override(ov.cdp, p.cdp), Override(ov.mcp, p.mcp),
          Override(ov.agent, p.agent), Override(ov.extension, p.extension))

\* Result: the RevalidatedPorts struct (mcp, agent, extension).
\* Variant of RevalidatePortsForRestart that revalidates the MCP port in
\* every call.
RevalidatePortsForRestart_McpAlways(cdp_port, current_mcp, current_agent, current_extension, revalidate_all, occ) ==
    LET mcp == FindAvailablePort(current_mcp, {cdp_port}, occ)
        agent == FindAvailablePort(current_agent, {cdp_port, mcp}, occ)
        extension == FindAvailablePort(current_extension,
                                       {cdp_port, mcp, agent}, occ)
    IN [mcp_port |-> mcp, agent_port |-> agent, extension_port |-> extension]

RevalidatePortsForRestart(cdp_port, current_mcp, current_agent, current_extension, revalidate_all, occ) ==
    LET mcp == IF revalidate_all
               THEN FindAvailablePort(current_mcp, {cdp_port}, occ)
               ELSE current_mcp
        agent == FindAvailablePort(current_agent, {cdp_port, mcp}, occ)
        extension == FindAvailablePort(current_extension,
                                       {cdp_port, mcp, agent}, occ)
    IN [mcp_port |-> mcp, agent_port |-> agent, extension_port |-> extension]

\* uint16_t narrowing of an int port at launch and at the CDP listener.
ToUint16(port) == port % kUint16Modulus

(***************************************************************************)
(* State                                                                   *)
(***************************************************************************)
VARIABLES
    \* BrowserOSServerManager fields
    is_running_, is_restarting_, is_updating_,
    process_,                       \* 0: invalid handle, else the pid
    cdp_port_, mcp_port_, agent_port_, extension_port_,
    allow_remote_in_mcp_,
    update_complete_callback_,      \* TRUE: a callback is stored
    consecutive_startup_failures_,
    health_check_timer_, process_check_timer_,   \* TRUE: running
    lock_file_,                     \* TRUE: valid and locked
    updater_,                       \* TRUE: non-null
    pref_change_registrar_,         \* TRUE: non-null
    cdp_server,                     \* port of the DevTools listener, 0: none
    \* environment
    prefs,          \* local_state: the six browseros.server.* preferences
    cmdline,        \* switches of the host process
    occupied,       \* ports on which a bind probe fails
    other_lock,     \* TRUE: another host process holds server.lock
    procs,          \* sidecar processes spawned so far, index = pid
    past_grace,     \* TRUE: Now - last_launch_time_ >= kStartupGracePeriod
    host,           \* ChromeBrowserMainParts: "init" before
                    \* PreMainMessageLoopRun, "running" while the main
                    \* message loop runs, "shutdown" after it
    \* orphan recovery
    state_file,     \* the record in server.state, or NoRecord
    os_procs,       \* the OS process table: pid -> entry
    orphan,         \* what RecoverFromOrphan saw and did
    \* thread pool and owner-thread message queue
    pool,           \* bag of tasks posted to the thread pool
    replies,        \* bag of replies posted back to the owner thread
    health_inflight,\* pids a /health probe is in flight for
    \* history (read by the properties only)
    last,           \* the step just taken
    pref_writes,
    streak,         \* length of the current run of consecutive launches
                    \* that each ended in a non-zero exit within the grace
                    \* period
    rollback_at,    \* positions in that run at which
                    \* InvalidateDownloadedVersion was called
    last_exit_counted,  \* the latest launch ended in such an exit
    start_outcome,  \* how the latest Start() ended
    health_failures,\* failed /health completions handled while running
                    \* since the last successful one, up to
                    \* kMaxHealthCheckFailures
    find,           \* the call of FindAvailablePort under examination
    launch_call,    \* the call of ProcessControllerImpl::Launch under
                    \* examination
    kill_call,      \* the run of server_utils::KillProcess under
                    \* examination
    proxy           \* the BrowserOSServerProxy, its connections and its
                    \* backend

vOrphan == <<state_file, os_procs, orphan>>
vFlags == <<is_running_, is_restarting_, is_updating_>>
vPorts == <<cdp_port_, mcp_port_, agent_port_, extension_port_>>
vTimers == <<health_check_timer_, process_check_timer_>>
vMisc == <<process_, allow_remote_in_mcp_, update_complete_callback_,
           consecutive_startup_failures_, lock_file_, updater_,
           pref_change_registrar_, cdp_server>>
vHostEnv == <<cmdline, occupied, vOrphan>>
vEnv == <<prefs, vHostEnv, other_lock, procs, past_grace, host>>
vAsync == <<pool, replies, health_inflight>>
vHist == <<pref_writes, streak, rollback_at, last_exit_counted,
           start_outcome, health_failures, find>>
vUnits == <<launch_call, kill_call, proxy>>
vars == <<vFlags, vPorts, vTimers, vMisc, vEnv, vAsync, vHist, vUnits,
          last>>

\* The step just taken: the operation, its argument or outcome, whether
\* is_restarting_ was set when it began, and what the step passed to the
\* update-complete callback ("none": the step did not run it).
Step(op, arg) ==
    [op |-> op, arg |-> arg, restarting |-> is_restarting_,
     callback |-> "none"]

(***************************************************************************)
(* Inputs                                                                  *)
(***************************************************************************)
NoOverrides == Ports(0, 0, 0, 0)
DefaultPrefPorts ==
    Ports(kDefaultCDPPort, kDefaultMCPPort, kDefaultAgentPort,
          kDefaultExtensionPort)

Prefs(p, allow, restart) ==
    [cdp |-> p.cdp, mcp |-> p.mcp, agent |-> p.agent,
     extension |-> p.extension, allow_remote |-> allow,
     restart_requested |-> restart]

CmdLine(ov, no_server, no_updater) ==
    [ports |-> ov, disable_server |-> no_server,
     disable_updater |-> no_updater]

\* A spawned process: its status and what it was launched with.
Proc(st, t) ==
    [status |-> st, cdp |-> t.cdp, mcp |-> t.mcp, agent |-> t.agent,
     extension |-> t.extension, allow_remote |-> t.flag]

\* A thread-pool task.  kind: "launch" (LaunchProcessOnBackgroundThread),
\* "restart" (the terminate-then-revalidate lambda, not yet run),
\* "restart_killed" (the lambda after kill and WaitForExit, before it
\* writes is_running_), "revalidate" (RevalidatePortsForRestart alone).
\* flag: allow_remote_in_mcp of a launch, revalidate_all of a revalidation.
Task(kind, c, m, a, e, flag) ==
    [kind |-> kind, cdp |-> c, mcp |-> m, agent |-> a, extension |-> e,
     flag |-> flag]

\* A reply to the owner thread: OnProcessLaunched(LaunchResult) or
\* OnPortsRevalidated(RevalidatedPorts).
LaunchReply(pid, used_fallback) ==
    [kind |-> "OnProcessLaunched", pid |-> pid,
     used_fallback |-> used_fallback, mcp |-> 0, agent |-> 0,
     extension |-> 0]
PortsReply(r) ==
    [kind |-> "OnPortsRevalidated", pid |-> 0, used_fallback |-> FALSE,
     mcp |-> r.mcp_port, agent |-> r.agent_port,
     extension |-> r.extension_port]

Post(bag, x) == bag (+) SetToBag({x})
Take(bag, x) == bag (-) SetToBag({x})
InFlight == BagCardinality(pool) + BagCardinality(replies)
CanPost == InFlight < MaxPool

AliveProcs == {i \in DOMAIN procs : procs[i].status = "alive"}

\* std::optional<ServerState>: the record of server.state.
NoRecord == [present |-> FALSE, pid |-> 0, creation_time |-> 0]
ServerState(pid, creation_time) ==
    [present |-> TRUE, pid |-> pid, creation_time |-> creation_time]

\* An entry of the OS process table.  creation_time = 0: the OS does not
\* give the creation time of this process.
NoEntry == [exists |-> FALSE, creation_time |-> 0]
OsProcess(creation_time) == [exists |-> TRUE, creation_time |-> creation_time]

\* No call of FindAvailablePort is under examination.
NoCall == [called |-> FALSE, starting_port |-> 0, excluded_ports |-> {},
           occ |-> {}, result |-> 0]

\* A call of ProcessControllerImpl::Launch: what the file system and the
\* OS answer to it, and its result once it has returned.
NoLaunchResult ==
    [valid |-> FALSE, used_fallback |-> FALSE, exe |-> "none",
     resources |-> "none"]
LaunchCall(primary_exists, fallback_exists, execution_empty, create_ok, write_ok, spawn_ok) ==
    [called |-> FALSE, primary_exists |-> primary_exists,
     fallback_exists |-> fallback_exists,
     execution_empty |-> execution_empty, create_ok |-> create_ok,
     write_ok |-> write_ok, spawn_ok |-> spawn_ok,
     result |-> NoLaunchResult]
NoLaunchCall == LaunchCall(FALSE, FALSE, FALSE, FALSE, FALSE, FALSE)

\* A run of server_utils::KillProcess(pid, graceful_timeout) on a build
\* for platform.  alive: the process pid exists; permitted: the caller may
\* signal (or open) it; polls_left: the iterations of the wait loop that
\* are left before the deadline; pc: where the run stands; result: the
\* value returned ("none": not yet).
KillCall(platform, alive, permitted, polls) ==
    [platform |-> platform, alive |-> alive, permitted |-> permitted,
     polls_left |-> polls, pc |-> "start", graceful_sent |-> FALSE,
     forceful_sent |-> FALSE, result |-> "none"]
NoKillCall == [KillCall("posix", FALSE, FALSE, 0) EXCEPT !.pc = "idle"]

\* The proxy before Start(): the fields of BrowserOSServerProxy (an entry
\* of pending_loaders_ is the index in reqs of the request the loader was
\* created for, 0: no entry), the connections of its HttpServer ("new": not
\* yet accepted) with the address class of their peers, the requests
\* received so far, whether the backend answers at all in this behaviour,
\* and whether SendResponse was ever called for a connection that is not
\* open.
Conns == 1..MaxConns
NoProxy ==
    [server_ |-> FALSE, url_loader_factory_ |-> FALSE, backend_port_ |-> 0,
     bound_port_ |-> 0, allow_remote_ |-> FALSE,
     pending_loaders_ |-> [c \in Conns |-> 0],
     conns |-> [c \in Conns |-> "new"],
     peer_loopback |-> [c \in Conns |-> TRUE],
     reqs |-> <<>>,
     backend_reachable |-> FALSE,
     late_response |-> FALSE]

NotRecovered == [ran |-> FALSE, record |-> NoRecord, entry |-> NoEntry,
                 killed |-> FALSE]

InitSupervisor ==
    /\ is_running_ = FALSE /\ is_restarting_ = FALSE /\ is_updating_ = FALSE
    /\ process_ = 0
    /\ cdp_port_ = 0 /\ mcp_port_ = 0 /\ agent_port_ = 0
    /\ extension_port_ = 0
    /\ allow_remote_in_mcp_ = FALSE
    /\ update_complete_callback_ = FALSE
    /\ consecutive_startup_failures_ = 0
    /\ health_check_timer_ = FALSE /\ process_check_timer_ = FALSE
    /\ lock_file_ = FALSE /\ updater_ = FALSE
    /\ pref_change_registrar_ = FALSE
    /\ cdp_server = 0
    /\ procs = <<>>
    /\ past_grace = TRUE
    /\ pool = EmptyBag /\ replies = EmptyBag /\ health_inflight = {}
    /\ last = Step("init", 0)
    /\ host = "init"
    /\ pref_writes = 0
    /\ streak = 0 /\ rollback_at = {} /\ last_exit_counted = FALSE
    /\ start_outcome = "none"
    /\ health_failures = 0
    /\ orphan = NotRecovered

\* No unit is under examination.
IdleUnits ==
    /\ launch_call = NoLaunchCall /\ kill_call = NoKillCall
    /\ proxy = NoProxy

InitCommon == InitSupervisor /\ find = NoCall /\ IdleUnits

Init ==
    /\ InitCommon
    /\ state_file = NoRecord
    /\ os_procs = [pid \in 1..MaxPid |-> NoEntry]
    /\ prefs = Prefs(DefaultPrefPorts, FALSE, FALSE)
    /\ cmdline \in {CmdLine(NoOverrides, d, FALSE) : d \in BOOLEAN}
    /\ occupied = {}
    /\ other_lock \in BOOLEAN

(***************************************************************************)
(* Start()                                                                 *)
(***************************************************************************)
SavePortsToPrefs(pr, p) ==
    [pr EXCEPT !.cdp = p.cdp, !.mcp = p.mcp, !.agent = p.agent,
               !.extension = p.extension]

\* lock_file_.Lock(kExclusive) == FILE_OK: the non-blocking exclusive lock
\* fails when another host process holds it.
Lock(held_elsewhere) == ~held_elsewhere

\* Variant of AcquireLock that ignores the error of Lock().
AcquireLock_IgnoresLockError(dir_ok, held_elsewhere) == dir_ok

\* AcquireLock(): dir_ok is whether GetBrowserOSExecutionDir() resolved and
\* server.lock could be opened; held_elsewhere whether another host
\* process holds the lock of that directory.
AcquireLock(dir_ok, held_elsewhere) == dir_ok /\ Lock(held_elsewhere)

\* LaunchBrowserOSProcess(): the pool after the call.  Nothing is posted
\* when the execution directory cannot be resolved.
LaunchBrowserOSProcess(dir_ok, c, m, a, e, allow, base) ==
    IF dir_ok
    THEN Post(base, Task("launch", ToUint16(c), ToUint16(m), ToUint16(a),
                         ToUint16(e), allow))
    ELSE base

Start ==
    /\ host = "init"
    /\ ~is_running_
    /\ host' = "running"
    /\ last' = Step("Start", 0)
    /\ LET final == ApplyCommandLineOverrides(
                        ResolvePortsForStartup(LoadPortsFromPrefs(prefs),
                                               occupied),
                        cmdline.ports)
       IN /\ cdp_port_' = final.cdp /\ mcp_port_' = final.mcp
          /\ agent_port_' = final.agent
          /\ extension_port_' = final.extension
          /\ allow_remote_in_mcp_' = prefs.allow_remote
          /\ pref_change_registrar_' = TRUE
          /\ prefs' = SavePortsToPrefs(prefs, final)
          /\ IF cmdline.disable_server
             THEN /\ start_outcome' = "disabled"
                  /\ UNCHANGED <<lock_file_, cdp_server, pool>>
             ELSE \E lock_dir_ok, launch_dir_ok \in BOOLEAN :
                    /\ lock_file_' = AcquireLock(lock_dir_ok, other_lock)
                    /\ IF AcquireLock(lock_dir_ok, other_lock)
                       THEN /\ start_outcome' = "lock_acquired"
                            /\ cdp_server' = ToUint16(final.cdp)
                            /\ pool' = LaunchBrowserOSProcess(
                                           launch_dir_ok, final.cdp,
                                           final.mcp, final.agent,
                                           final.extension,
                                           prefs.allow_remote, pool)
                       ELSE /\ start_outcome' = "lock_failed"
                            /\ UNCHANGED <<cdp_server, pool>>
    /\ UNCHANGED <<vFlags, vTimers, process_, update_complete_callback_,
                   consecutive_startup_failures_, updater_, vHostEnv,
                   other_lock, procs, past_grace, replies,
                   health_inflight, pref_writes, streak, rollback_at,
                   last_exit_counted, health_failures, find, vUnits>>

(***************************************************************************)
(* Launch on the thread pool, and its reply                                *)
(***************************************************************************)
\* LaunchProcessOnBackgroundThread: the LaunchResult.  io_ok: the execution
\* directory, the config file and base::LaunchProcess all succeeded.
LaunchProcessOnBackgroundThread(primary_exists, fallback_exists, io_ok) ==
    [valid |-> (primary_exists \/ fallback_exists) /\ io_ok,
     used_fallback |-> ~primary_exists]

Gone == [status |-> "gone", cdp |-> 0, mcp |-> 0, agent |-> 0,
         extension |-> 0, allow_remote |-> FALSE]
Dead(st) == [Gone EXCEPT !.status = st]

\* A handle to pid is held by the supervisor or travels in a reply.
Referenced(pid) ==
    \/ process_ = pid
    \/ \E r \in BagToSet(replies) : r.pid = pid

WorkerLaunch(max_launches) ==
    \E t \in BagToSet(pool) :
      /\ t.kind = "launch"
      /\ \E primary_exists, fallback_exists, io_ok \in BOOLEAN :
           LET r == LaunchProcessOnBackgroundThread(primary_exists,
                                                    fallback_exists, io_ok)
           IN /\ r.valid => Len(procs) < max_launches
              /\ procs' = IF r.valid THEN Append(procs, Proc("alive", t))
                          ELSE procs
              /\ replies' = Post(replies,
                                 LaunchReply(IF r.valid THEN Len(procs) + 1
                                             ELSE 0, r.used_fallback))
      /\ pool' = Take(pool, t)
      /\ last' = Step("WorkerLaunch", 0)
      /\ UNCHANGED <<vFlags, vPorts, vTimers, vMisc, prefs, vHostEnv,
                     other_lock, past_grace, host,
                     health_inflight, vHist, vUnits>>

\* Variant of UpdateCallbackResult that reports successes only.
UpdateCallbackResult_SuccessOnly(was_updating, has_callback, valid) ==
    IF was_updating /\ has_callback /\ valid THEN "true" ELSE "none"

\* What OnProcessLaunched passes to update_complete_callback_: it runs the
\* callback only when is_updating_ was set on entry and a callback is
\* stored, with whether the launch result holds a valid process.
UpdateCallbackResult(was_updating, has_callback, valid) ==
    IF was_updating /\ has_callback
    THEN IF valid THEN "true" ELSE "false"
    ELSE "none"

\* last.arg = 1: InvalidateDownloadedVersion was called (fallback binary).
OnProcessLaunched(r) ==
    LET was_updating == is_updating_ IN
    /\ replies' = Take(replies, r)
    /\ last' = [Step("OnProcessLaunched",
                     IF r.used_fallback /\ updater_ THEN 1 ELSE 0)
                EXCEPT !.callback =
                    UpdateCallbackResult(was_updating,
                                         update_complete_callback_,
                                         r.pid # 0)]
    /\ is_restarting_' = FALSE
    /\ is_updating_' = FALSE
    /\ update_complete_callback_' =
           IF was_updating THEN FALSE ELSE update_complete_callback_
    /\ IF r.pid = 0
       THEN UNCHANGED <<is_running_, process_, vTimers, prefs, updater_,
                        past_grace, procs, streak, rollback_at,
                        last_exit_counted>>
       ELSE /\ process_' = r.pid
            /\ is_running_' = TRUE
            /\ past_grace' = FALSE
            /\ health_check_timer_' = TRUE
            /\ process_check_timer_' = TRUE
            /\ prefs' = IF is_restarting_
                        THEN [prefs EXCEPT !.restart_requested = FALSE]
                        ELSE prefs
            /\ updater_' = (updater_ \/ ~cmdline.disable_updater)
            /\ procs' = [i \in DOMAIN procs |->
                           IF i = process_ /\ i # r.pid
                              /\ procs[i].status # "alive"
                           THEN Gone ELSE procs[i]]
            /\ streak' = IF last_exit_counted THEN streak ELSE 0
            /\ rollback_at' = IF last_exit_counted THEN rollback_at ELSE {}
            /\ last_exit_counted' = FALSE
    /\ UNCHANGED <<vPorts, allow_remote_in_mcp_,
                   consecutive_startup_failures_, lock_file_,
                   pref_change_registrar_, cdp_server, vHostEnv,
                   other_lock, host, pool, health_inflight, pref_writes,
                   start_outcome, health_failures, find, vUnits>>

DeliverProcessLaunched ==
    /\ host = "running"
    /\ \E r \in BagToSet(replies) :
         r.kind = "OnProcessLaunched" /\ OnProcessLaunched(r)

(***************************************************************************)
(* Restart sequence                                                        *)
(***************************************************************************)
\* Variant of RestartBrowserOSProcess without the is_restarting_ guard.
RestartBrowserOSProcess_Unguarded ==
    /\ is_restarting_' = TRUE
    /\ health_check_timer_' = FALSE
    /\ process_check_timer_' = FALSE
    /\ pool' = Post(pool, Task("restart", cdp_port_, mcp_port_, agent_port_,
                               extension_port_, FALSE))

\* Variant of RestartBrowserOSProcess that leaves the timers running.
RestartBrowserOSProcess_TimersKept ==
    IF is_restarting_
    THEN UNCHANGED <<is_restarting_, vTimers, pool>>
    ELSE /\ is_restarting_' = TRUE
         /\ UNCHANGED vTimers
         /\ pool' = Post(pool, Task("restart", cdp_port_, mcp_port_,
                                    agent_port_, extension_port_, FALSE))

\* RestartBrowserOSProcess(): what it does to the restart flag, the timers
\* and the thread pool.  The caller leaves or sets the other variables.
RestartBrowserOSProcess ==
    IF is_restarting_
    THEN UNCHANGED <<is_restarting_, vTimers, pool>>
    ELSE /\ is_restarting_' = TRUE
         /\ health_check_timer_' = FALSE
         /\ process_check_timer_' = FALSE
         /\ pool' = Post(pool, Task("restart", cdp_port_, mcp_port_,
                                    agent_port_, extension_port_, FALSE))

\* The restart lambda on a worker thread, first half:
\* TerminateBrowserOSProcess(wait=true) reads process_; with an invalid
\* handle it returns at once and the lambda goes on to revalidate; with a
\* valid one it sends SIGKILL and waits for the exit.
WorkerTerminate ==
    \E t \in BagToSet(pool) :
      /\ t.kind = "restart"
      /\ IF process_ = 0
         THEN /\ pool' = Take(pool, t)
              /\ replies' = Post(replies, PortsReply(
                     RevalidatePortsForRestart(t.cdp, t.mcp, t.agent,
                                               t.extension, FALSE,
                                               occupied)))
              /\ procs' = procs
         ELSE /\ pool' = Post(Take(pool, t),
                              [t EXCEPT !.kind = "restart_killed"])
              /\ procs' = [procs EXCEPT ![process_] =
                             IF @.status = "alive" THEN Dead("killed")
                             ELSE @]
              /\ replies' = replies
      /\ last' = Step("WorkerTerminate", 0)
      /\ UNCHANGED <<vFlags, vPorts, vTimers, vMisc, prefs, vHostEnv,
                     other_lock, past_grace, host,
                     health_inflight, vHist, vUnits>>

\* Second half of the lambda (is_running_ = false at the end of
\* TerminateBrowserOSProcess, then RevalidatePortsForRestart), and the
\* RevalidatePortsForRestart task OnProcessExited posts.
\* last.arg = 1: the call was made with revalidate_all = true.
WorkerRevalidate ==
    \E t \in BagToSet(pool) :
      /\ t.kind \in {"restart_killed", "revalidate"}
      /\ is_running_' = IF t.kind = "restart_killed" THEN FALSE
                        ELSE is_running_
      /\ pool' = Take(pool, t)
      /\ replies' = Post(replies, PortsReply(
             RevalidatePortsForRestart(t.cdp, t.mcp, t.agent, t.extension,
                                       t.flag, occupied)))
      /\ last' = Step("WorkerRevalidate", IF t.flag THEN 1 ELSE 0)
      /\ UNCHANGED <<is_restarting_, is_updating_, vPorts, vTimers, vMisc,
                     vEnv, health_inflight, vHist, vUnits>>

OnPortsRevalidated(r) ==
    LET ports_changed == \/ r.mcp # mcp_port_
                         \/ r.agent # agent_port_
                         \/ r.extension # extension_port_
        p == Ports(cdp_port_, r.mcp, r.agent, r.extension)
    IN /\ mcp_port_' = r.mcp
       /\ agent_port_' = r.agent
       /\ extension_port_' = r.extension
       /\ prefs' = IF ports_changed THEN SavePortsToPrefs(prefs, p)
                   ELSE prefs
       /\ \E dir_ok \in BOOLEAN :
            pool' = LaunchBrowserOSProcess(dir_ok, cdp_port_, r.mcp,
                                           r.agent, r.extension,
                                           allow_remote_in_mcp_, pool)
       /\ replies' = Take(replies, r)
       /\ last' = Step("OnPortsRevalidated", 0)
       /\ UNCHANGED <<vFlags, cdp_port_, vTimers, vMisc, vHostEnv,
                      other_lock, procs, past_grace, host, health_inflight,
                      vHist, vUnits>>

DeliverPortsRevalidated ==
    /\ host = "running"
    /\ \E r \in BagToSet(replies) :
         r.kind = "OnPortsRevalidated" /\ OnPortsRevalidated(r)

(***************************************************************************)
(* Process exit                                                            *)
(***************************************************************************)
\* The history after an exit: counted is whether the exit was a non-zero
\* one within the grace period, called whether
\* InvalidateDownloadedVersion was called at it.
NoteExit(counted, called) ==
    /\ last_exit_counted' = counted
    /\ streak' = IF counted THEN streak + 1 ELSE 0
    /\ rollback_at' = IF ~counted THEN {}
                      ELSE IF called THEN rollback_at \cup {streak + 1}
                      ELSE rollback_at

\* Variant of IsCleanExit that treats no exit as clean.
IsCleanExit_Never(exit_code) == FALSE

\* "Handle clean shutdown (exit code 0) - don't restart".
IsCleanExit(exit_code) == exit_code = kExitCodeSuccess

\* Variant of IsPortConflictExit that treats no exit as a port conflict.
IsPortConflictExit_Never(exit_code) == FALSE

\* "bool revalidate_all = (exit_code == kExitCodePortConflict)".
IsPortConflictExit(exit_code) == exit_code = kExitCodePortConflict

OnProcessExited(exit_code) ==
    /\ is_running_' = FALSE
    /\ last' = Step("OnProcessExited", exit_code)
    /\ IF IsCleanExit(exit_code)
       THEN /\ health_check_timer_' = FALSE
            /\ process_check_timer_' = FALSE
            /\ NoteExit(FALSE, FALSE)
            /\ UNCHANGED <<is_restarting_, consecutive_startup_failures_,
                           pool>>
       ELSE LET early == ~past_grace
                n == consecutive_startup_failures_ + 1
                too_many == early /\ n >= kMaxStartupFailures
            IN /\ consecutive_startup_failures_' =
                      IF early /\ ~too_many THEN n ELSE 0
               /\ NoteExit(early, too_many /\ updater_)
               /\ health_check_timer_' = FALSE
               /\ process_check_timer_' = FALSE
               /\ IF is_restarting_
                  THEN UNCHANGED <<is_restarting_, pool>>
                  ELSE /\ is_restarting_' = TRUE
                       /\ pool' = Post(pool,
                              Task("revalidate", cdp_port_, mcp_port_,
                                   agent_port_, extension_port_,
                                   IsPortConflictExit(exit_code)))
    /\ UNCHANGED <<is_updating_, vPorts, process_, allow_remote_in_mcp_,
                   update_complete_callback_, lock_file_, updater_,
                   pref_change_registrar_, cdp_server, vEnv, replies,
                   health_inflight, pref_writes, start_outcome,
                   health_failures, find, vUnits>>

\* Exit codes WaitForExitWithTimeout can report for a dead process: a
\* process the supervisor killed reports a non-zero code, never 0 or 2.
ExitCodes(status) == IF status = "killed" THEN {1} ELSE {0, 1, 2}

CheckProcessStatus ==
    /\ host = "running"
    /\ process_check_timer_
    /\ is_running_ /\ process_ # 0
    /\ procs[process_].status # "alive"
    /\ \E exit_code \in ExitCodes(procs[process_].status) :
         /\ (~IsCleanExit(exit_code) /\ ~is_restarting_) => CanPost
         /\ OnProcessExited(exit_code)

(***************************************************************************)
(* Health check                                                            *)
(***************************************************************************)
CheckServerHealth ==
    /\ host = "running"
    /\ health_check_timer_
    /\ is_running_
    /\ process_ \notin health_inflight
    /\ Cardinality(health_inflight) < MaxProbes
    /\ health_inflight' = health_inflight \cup {process_}
    /\ last' = Step("CheckServerHealth", process_)
    /\ UNCHANGED <<vFlags, vPorts, vTimers, vMisc, vEnv, pool, replies,
                   vHist, vUnits>>

\* probe: the pid the probe was issued for; ok: response code 200.
OnHealthCheckComplete(probe, ok) ==
    /\ health_inflight' = health_inflight \ {probe}
    /\ last' = Step("OnHealthCheckComplete", IF ok THEN 1 ELSE 0)
    /\ IF is_running_ /\ ~ok
       THEN RestartBrowserOSProcess
       ELSE UNCHANGED <<is_restarting_, vTimers, pool>>
    /\ health_failures' =
           IF ~is_running_ THEN health_failures
           ELSE IF ok THEN 0
           ELSE IF health_failures < kMaxHealthCheckFailures
                THEN health_failures + 1 ELSE health_failures
    /\ UNCHANGED <<is_running_, is_updating_, vPorts, vMisc, vEnv, replies,
                   pref_writes, streak, rollback_at, last_exit_counted,
                   start_outcome, find, vUnits>>

HealthCheckCompletes ==
    \E probe \in health_inflight, ok \in BOOLEAN :
        /\ host = "running"
        /\ (is_running_ /\ ~ok /\ ~is_restarting_) => CanPost
        /\ OnHealthCheckComplete(probe, ok)

(***************************************************************************)
(* Preference observers                                                    *)
(***************************************************************************)
\* Called by the registrar after browseros.server.allow_remote_in_mcp
\* changed; reads the new value from prefs'.
OnAllowRemoteInMCPChanged ==
    IF is_running_ /\ prefs'.allow_remote # allow_remote_in_mcp_
    THEN /\ allow_remote_in_mcp_' = prefs'.allow_remote
         /\ RestartBrowserOSProcess
    ELSE UNCHANGED <<allow_remote_in_mcp_, is_restarting_, vTimers, pool>>

\* Called by the registrar after browseros.server.restart_requested
\* changed; reads the new value from prefs'.
OnRestartServerRequestedChanged ==
    IF prefs'.restart_requested
    THEN RestartBrowserOSProcess
    ELSE UNCHANGED <<is_restarting_, vTimers, pool>>

\* Some client of local_state writes allow_remote_in_mcp.
SetAllowRemotePref ==
    /\ host = "running"
    /\ pref_writes < MaxPrefWrites
    /\ ~is_restarting_ => CanPost
    /\ pref_writes' = pref_writes + 1
    /\ prefs' = [prefs EXCEPT !.allow_remote = ~@]
    /\ last' = Step("SetAllowRemotePref", 0)
    /\ IF pref_change_registrar_
       THEN OnAllowRemoteInMCPChanged
       ELSE UNCHANGED <<allow_remote_in_mcp_, is_restarting_, vTimers,
                        pool>>
    /\ UNCHANGED <<is_running_, is_updating_, vPorts, process_,
                   update_complete_callback_,
                   consecutive_startup_failures_, lock_file_, updater_,
                   pref_change_registrar_, cdp_server, vHostEnv,
                   other_lock, procs, past_grace, host, replies,
                   health_inflight, streak, rollback_at, last_exit_counted,
                   start_outcome, health_failures, find, vUnits>>

\* Some client of local_state writes restart_requested.
SetRestartRequestedPref ==
    /\ host = "running"
    /\ pref_writes < MaxPrefWrites
    /\ ~is_restarting_ => CanPost
    /\ pref_writes' = pref_writes + 1
    /\ prefs' = [prefs EXCEPT !.restart_requested = ~@]
    /\ last' = Step("SetRestartRequestedPref", 0)
    /\ IF pref_change_registrar_
       THEN OnRestartServerRequestedChanged
       ELSE UNCHANGED <<is_restarting_, vTimers, pool>>
    /\ UNCHANGED <<is_running_, is_updating_, vPorts, vMisc, vHostEnv,
                   other_lock, procs, past_grace, host, replies,
                   health_inflight, streak, rollback_at, last_exit_counted,
                   start_outcome, health_failures, find, vUnits>>

(***************************************************************************)
(* Update restart                                                          *)
(***************************************************************************)
\* Variant of RestartInProgress that looks at is_updating_ alone.
RestartInProgress_UpdateOnly == is_updating_

\* "Prevent multiple concurrent restarts": the guard of
\* RestartServerForUpdate.
RestartInProgress == is_restarting_ \/ is_updating_

\* Called by the updater, which exists once a launch has succeeded.
\* last.arg = 0: the call was refused and its callback run with false at
\* once; 1: the callback was stored and the restart started.
RestartServerForUpdate ==
    /\ host = "running"
    /\ updater_
    /\ ~RestartInProgress => CanPost
    /\ IF RestartInProgress
       THEN /\ last' = [Step("RestartServerForUpdate", 0)
                        EXCEPT !.callback = "false"]
            /\ UNCHANGED <<vFlags, update_complete_callback_, vTimers,
                           pool>>
       ELSE /\ last' = Step("RestartServerForUpdate", 1)
            /\ is_updating_' = TRUE
            /\ update_complete_callback_' = TRUE
            /\ is_restarting_' = TRUE
            /\ health_check_timer_' = FALSE
            /\ process_check_timer_' = FALSE
            /\ pool' = Post(pool, Task("restart", cdp_port_, mcp_port_,
                                       agent_port_, extension_port_,
                                       FALSE))
            /\ UNCHANGED is_running_
    /\ UNCHANGED <<vPorts, process_, allow_remote_in_mcp_,
                   consecutive_startup_failures_, lock_file_, updater_,
                   pref_change_registrar_, cdp_server, vEnv, replies,
                   health_inflight, vHist, vUnits>>

(***************************************************************************)
(* Stop() / Shutdown()                                                     *)
(***************************************************************************)
Stop ==
    /\ last' = Step("Stop", 0)
    /\ host' = "shutdown"
    /\ IF ~is_running_
       THEN UNCHANGED <<is_running_, vTimers, updater_, procs, lock_file_>>
       ELSE /\ health_check_timer_' = FALSE
            /\ process_check_timer_' = FALSE
            /\ updater_' = FALSE
            \* TerminateBrowserOSProcess(wait=false)
            /\ IF process_ = 0
               THEN UNCHANGED <<procs, is_running_>>
               ELSE /\ procs' = [procs EXCEPT ![process_] =
                                   IF @.status = "alive"
                                   THEN Dead("killed") ELSE @]
                    /\ is_running_' = FALSE
            /\ lock_file_' = FALSE
    /\ UNCHANGED <<is_restarting_, is_updating_, vPorts, process_,
                   allow_remote_in_mcp_, update_complete_callback_,
                   consecutive_startup_failures_, pref_change_registrar_,
                   cdp_server, prefs, vHostEnv, other_lock,
                   past_grace, vAsync, vHist, vUnits>>

\* PostMainMessageLoopRun() calls Shutdown() once the main message loop
\* has ended: from then on no owner-thread task runs.
Shutdown == host = "running" /\ Stop

(***************************************************************************)
(* Environment                                                             *)
(***************************************************************************)
\* A live sidecar exits on its own.
ProcessExits ==
    \E pid \in AliveProcs :
      /\ procs' = [procs EXCEPT ![pid] =
                     IF Referenced(pid) THEN Dead("exited") ELSE Gone]
      /\ last' = Step("ProcessExits", 0)
      /\ UNCHANGED <<vFlags, vPorts, vTimers, vMisc, prefs, vHostEnv,
                     other_lock, past_grace, host, vAsync,
                     vHist, vUnits>>

\* The grace period since the last launch elapses.
GracePeriodElapses ==
    /\ ~past_grace
    /\ past_grace' = TRUE
    /\ last' = Step("GracePeriodElapses", 0)
    /\ UNCHANGED <<vFlags, vPorts, vTimers, vMisc, prefs, vHostEnv,
                   other_lock, procs, host, vAsync, vHist, vUnits>>

(***************************************************************************)
(* Orphan recovery                                                         *)
(***************************************************************************)
ReadStateFile == state_file

ProcessExists(pid) == pid \in DOMAIN os_procs /\ os_procs[pid].exists

\* std::optional<base::Time>: ok is has_value().
GetProcessCreationTime(pid) ==
    IF ProcessExists(pid) /\ os_procs[pid].creation_time # 0
    THEN [ok |-> TRUE, value |-> os_procs[pid].creation_time]
    ELSE [ok |-> FALSE, value |-> 0]

\* Variant of IsOwnOrphan that identifies the process by its pid alone.
IsOwnOrphan_PidOnly(record) == record.present /\ ProcessExists(record.pid)

\* The recorded pid is this supervisor's own orphaned sidecar.
IsOwnOrphan(record) ==
    /\ record.present
    /\ ProcessExists(record.pid)
    /\ GetProcessCreationTime(record.pid).ok
    /\ GetProcessCreationTime(record.pid).value = record.creation_time

\* KillProcess(pid): the process table after SIGTERM, the poll and
\* SIGKILL.  died: the process ended; otherwise a signal could not be
\* delivered or the process outlived the final wait.
KillProcess(pid, died) ==
    IF died THEN [os_procs EXCEPT ![pid] = NoEntry] ELSE os_procs

\* DeleteStateFile(): the record of server.state after the file has been
\* deleted.
DeleteStateFile == NoRecord

\* Variant of RecordAfterRecovery that keeps the record of an orphan that
\* could not be killed.
RecordAfterRecovery_KeptOnFailedKill(record, kill, died) ==
    IF kill /\ ~died THEN record ELSE DeleteStateFile

\* The record the recovery routine leaves: deleted in every branch,
\* whatever the outcome of the kill.
RecordAfterRecovery(record, kill, died) == DeleteStateFile

\* The recovery routine: run once, before the ports are resolved.
RecoverFromOrphan ==
    /\ host = "init"
    /\ ~orphan.ran
    /\ LET record == ReadStateFile
           kill == IsOwnOrphan(record)
       IN /\ orphan' = [ran |-> TRUE, record |-> record,
                        entry |-> IF record.pid \in DOMAIN os_procs
                                  THEN os_procs[record.pid] ELSE NoEntry,
                        killed |-> kill]
          /\ \E died \in BOOLEAN :
               /\ os_procs' = IF kill THEN KillProcess(record.pid, died)
                              ELSE os_procs
               /\ state_file' = RecordAfterRecovery(record, kill, died)
          /\ last' = Step("RecoverFromOrphan", IF kill THEN 1 ELSE 0)
    /\ UNCHANGED <<vFlags, vPorts, vTimers, vMisc, prefs, cmdline, occupied,
                   other_lock, procs, past_grace, host, vAsync, vHist, vUnits>>

\* A process of the system ends.
OsProcessExits ==
    \E pid \in DOMAIN os_procs :
      /\ os_procs[pid].exists
      /\ os_procs' = [os_procs EXCEPT ![pid] = NoEntry]
      /\ last' = Step("OsProcessExits", pid)
      /\ UNCHANGED <<vFlags, vPorts, vTimers, vMisc, prefs, cmdline,
                     occupied, other_lock, procs, past_grace, host, vAsync,
                     vHist, vUnits, state_file, orphan>>

\* The OS gives a free pid to a new, unrelated process.
OsProcessSpawns ==
    \E pid \in DOMAIN os_procs, t \in 0..MaxCreationTime :
      /\ ~os_procs[pid].exists
      /\ os_procs' = [os_procs EXCEPT ![pid] = OsProcess(t)]
      /\ last' = Step("OsProcessSpawns", pid)
      /\ UNCHANGED <<vFlags, vPorts, vTimers, vMisc, prefs, cmdline,
                     occupied, other_lock, procs, past_grace, host, vAsync,
                     vHist, vUnits, state_file, orphan>>

OrphanRecords ==
    {NoRecord} \cup {ServerState(pid, t) :
                        pid \in 1..MaxPid, t \in 0..MaxCreationTime}
OsEntries == {NoEntry} \cup {OsProcess(t) : t \in 0..MaxCreationTime}

\* A host start after a crash: any record, any process table.
InitOrphan ==
    /\ InitCommon
    /\ prefs = Prefs(DefaultPrefPorts, FALSE, FALSE)
    /\ cmdline = CmdLine(NoOverrides, FALSE, FALSE)
    /\ occupied = {}
    /\ other_lock = FALSE
    /\ state_file \in OrphanRecords
    /\ os_procs \in [1..MaxPid -> OsEntries]

NextOrphan ==
    \/ RecoverFromOrphan
    \/ OsProcessExits
    \/ OsProcessSpawns

SpecOrphan == InitOrphan /\ [][NextOrphan]_vars

(***************************************************************************)
(* A second host process on the same execution directory                   *)
(***************************************************************************)
\* The other host process runs Start() up to AcquireLock().
OtherInstanceStarts ==
    /\ ~other_lock
    /\ \E dir_ok \in BOOLEAN :
         other_lock' = AcquireLock(dir_ok, lock_file_)
    /\ last' = Step("OtherInstanceStarts", 0)
    /\ UNCHANGED <<vFlags, vPorts, vTimers, vMisc, prefs, vHostEnv, procs,
                   past_grace, host, vAsync, vHist, vUnits>>

\* The other host process releases its lock or ends.
OtherInstanceShutsDown ==
    /\ other_lock
    /\ other_lock' = FALSE
    /\ last' = Step("OtherInstanceShutsDown", 0)
    /\ UNCHANGED <<vFlags, vPorts, vTimers, vMisc, prefs, vHostEnv, procs,
                   past_grace, host, vAsync, vHist, vUnits>>

InitLock ==
    /\ InitCommon
    /\ prefs = Prefs(DefaultPrefPorts, FALSE, FALSE)
    /\ cmdline = CmdLine(NoOverrides, FALSE, FALSE)
    /\ occupied = {}
    /\ other_lock \in BOOLEAN
    /\ state_file = NoRecord
    /\ os_procs = [pid \in 1..MaxPid |-> NoEntry]

NextLock ==
    \/ Start
    \/ WorkerLaunch(MaxLaunches)
    \/ DeliverProcessLaunched
    \/ ProcessExits
    \/ CheckProcessStatus
    \/ WorkerRevalidate
    \/ DeliverPortsRevalidated
    \/ Shutdown
    \/ OtherInstanceStarts
    \/ OtherInstanceShutsDown

SpecLock == InitLock /\ [][NextLock]_vars

(***************************************************************************)
(* Port negotiation over wide inputs                                       *)
(***************************************************************************)
\* Persisted ports: 0 is an unset preference.
PrefPortChoices ==
    {Ports(c, kDefaultMCPPort, a, kDefaultExtensionPort) :
        c \in {0, kDefaultMCPPort - 1},
        a \in {kDefaultAgentPort, kDefaultMCPPort}}

OverrideChoices ==
    {Ports(0, m, 0, 0) : m \in {0, kDefaultMCPPort + 455}}

\* Ports held by other processes of the machine.
OccupiedChoices ==
    SUBSET {kDefaultMCPPort - 1, kDefaultMCPPort, kDefaultAgentPort,
            kDefaultMCPPort + 455}

InitPorts ==
    /\ InitCommon
    /\ prefs \in {Prefs(p, FALSE, FALSE) : p \in PrefPortChoices}
    /\ cmdline \in {CmdLine(ov, FALSE, FALSE) : ov \in OverrideChoices}
    /\ occupied \in OccupiedChoices
    /\ other_lock = FALSE
    /\ state_file = NoRecord
    /\ os_procs = [pid \in 1..MaxPid |-> NoEntry]

\* Another process of the machine binds or releases a port.
PortsChange ==
    /\ \E occ \in OccupiedChoices :
         /\ occ # occupied
         /\ occupied' = occ
    /\ last' = Step("PortsChange", 0)
    /\ UNCHANGED <<vFlags, vPorts, vTimers, vMisc, prefs, cmdline, vOrphan,
                   other_lock, procs, past_grace, host, vAsync, vHist, vUnits>>

NextPorts ==
    \/ Start
    \/ WorkerLaunch(MaxLaunches)
    \/ DeliverProcessLaunched
    \/ ProcessExits
    \/ CheckProcessStatus
    \/ WorkerRevalidate
    \/ DeliverPortsRevalidated
    \/ PortsChange

SpecPorts == InitPorts /\ [][NextPorts]_vars

(***************************************************************************)
(* Start and restarts over any persisted port value                        *)
(***************************************************************************)
\* Values of the four integer preferences as local_state may hold them:
\* the defaults, a well-known port and a value above kMaxPort.
PersistedPortChoices ==
    {Ports(c, m, kDefaultAgentPort, e) :
        c \in {kDefaultCDPPort, 70000},
        m \in {kDefaultMCPPort, 80, 70000},
        e \in {kDefaultExtensionPort, 70000}}

InitPersisted ==
    /\ InitCommon
    /\ prefs \in {Prefs(p, FALSE, FALSE) : p \in PersistedPortChoices}
    /\ cmdline = CmdLine(NoOverrides, FALSE, FALSE)
    /\ occupied \in {{}, {kDefaultAgentPort}}
    /\ other_lock = FALSE
    /\ state_file = NoRecord
    /\ os_procs = [pid \in 1..MaxPid |-> NoEntry]

NextPersisted ==
    \/ Start
    \/ WorkerLaunch(MaxLaunches)
    \/ DeliverProcessLaunched
    \/ ProcessExits
    \/ CheckProcessStatus
    \/ WorkerRevalidate
    \/ DeliverPortsRevalidated

SpecPersisted == InitPersisted /\ [][NextPersisted]_vars

(***************************************************************************)
(* Crash loop                                                              *)
(***************************************************************************)
InitCrashLoop ==
    /\ InitCommon
    /\ prefs = Prefs(DefaultPrefPorts, FALSE, FALSE)
    /\ cmdline = CmdLine(NoOverrides, FALSE, FALSE)
    /\ occupied = {}
    /\ other_lock = FALSE
    /\ state_file = NoRecord
    /\ os_procs = [pid \in 1..MaxPid |-> NoEntry]

NextCrashLoop ==
    \/ Start
    \/ WorkerLaunch(MaxCrashLaunches)
    \/ DeliverProcessLaunched
    \/ WorkerTerminate
    \/ WorkerRevalidate
    \/ DeliverPortsRevalidated
    \/ ProcessExits
    \/ GracePeriodElapses
    \/ CheckProcessStatus
    \/ SetRestartRequestedPref

SpecCrashLoop == InitCrashLoop /\ [][NextCrashLoop]_vars

(***************************************************************************)
(* FindAvailablePort over wide inputs                                      *)
(***************************************************************************)
\* Starting ports: below, at and above the well-known limit, a restricted
\* port, a default, and values around kMaxPort.
StartingPortChoices ==
    {-5, 0, 100, kWellKnownPortLimit - kMaxPortAttempts,
     kWellKnownPortLimit - 1, kWellKnownPortLimit, 2049, kDefaultAgentPort,
     kMaxPort - kMaxPortAttempts + 1, kMaxPort - 1, kMaxPort, kMaxPort + 1,
     70000}

ExcludedChoices ==
    SUBSET {kWellKnownPortLimit, kDefaultAgentPort, kDefaultAgentPort + 1,
            kMaxPort}

\* Ports held by other processes: none, single ports, a whole scan window,
\* a window but its last port, the top of the port range.
FindOccupiedChoices ==
    {{}, {kDefaultAgentPort}, {kDefaultAgentPort, kDefaultAgentPort + 1},
     kDefaultAgentPort .. kDefaultAgentPort + kMaxPortAttempts - 1,
     kDefaultAgentPort .. kDefaultAgentPort + kMaxPortAttempts - 2,
     kMaxPort - kMaxPortAttempts + 1 .. kMaxPort,
     {kWellKnownPortLimit, 2050}}

\* A call FindAvailablePort(starting_port, excluded_ports) that has not
\* returned yet, with the ports occ held by other processes.
Call(starting_port, excluded_ports, occ) ==
    [called |-> FALSE, starting_port |-> starting_port,
     excluded_ports |-> excluded_ports, occ |-> occ, result |-> 0]

InitFind ==
    /\ InitSupervisor
    /\ prefs = Prefs(DefaultPrefPorts, FALSE, FALSE)
    /\ cmdline = CmdLine(NoOverrides, FALSE, FALSE)
    /\ occupied = {}
    /\ other_lock = FALSE
    /\ state_file = NoRecord
    /\ os_procs = [pid \in 1..MaxPid |-> NoEntry]
    /\ find \in {Call(p, x, o) : p \in StartingPortChoices,
                                 x \in ExcludedChoices,
                                 o \in FindOccupiedChoices}
    /\ IdleUnits

\* The call returns.
CallFindAvailablePort ==
    /\ ~find.called
    /\ find' = [find EXCEPT
                   !.called = TRUE,
                   !.result = FindAvailablePort(find.starting_port,
                                                find.excluded_ports,
                                                find.occ)]
    /\ last' = Step("FindAvailablePort", 0)
    /\ UNCHANGED <<vFlags, vPorts, vTimers, vMisc, vEnv, vAsync,
                   pref_writes, streak, rollback_at, last_exit_counted,
                   start_outcome, health_failures, vUnits>>

NextFind == CallFindAvailablePort

SpecFind == InitFind /\ [][NextFind]_vars


(***************************************************************************)
InitHealth ==
    /\ InitCommon
    /\ prefs = Prefs(DefaultPrefPorts, FALSE, FALSE)
    /\ cmdline = CmdLine(NoOverrides, FALSE, FALSE)
    /\ occupied = {}
    /\ other_lock = FALSE
    /\ state_file = NoRecord
    /\ os_procs = [pid \in 1..MaxPid |-> NoEntry]

NextHealth ==
    \/ Start
    \/ WorkerLaunch(MaxHealthLaunches)
    \/ DeliverProcessLaunched
    \/ WorkerTerminate
    \/ WorkerRevalidate
    \/ DeliverPortsRevalidated
    \/ CheckServerHealth
    \/ HealthCheckCompletes
    \/ SetRestartRequestedPref

SpecHealth == InitHealth /\ [][NextHealth]_vars

(***************************************************************************)
(* Update restarts, with the scheduling the thread pool and the message    *)
(* loop give                                                               *)
(***************************************************************************)
InitUpdate ==
    /\ InitCommon
    /\ prefs = Prefs(DefaultPrefPorts, FALSE, FALSE)
    /\ cmdline = CmdLine(NoOverrides, FALSE, FALSE)
    /\ occupied = {}
    /\ other_lock = FALSE
    /\ state_file = NoRecord
    /\ os_procs = [pid \in 1..MaxPid |-> NoEntry]

NextUpdate ==
    \/ Start
    \/ WorkerLaunch(MaxLaunches)
    \/ DeliverProcessLaunched
    \/ WorkerTerminate
    \/ WorkerRevalidate
    \/ DeliverPortsRevalidated
    \/ RestartServerForUpdate
    \/ SetRestartRequestedPref
    \/ ProcessExits
    \/ CheckProcessStatus

\* The thread pool runs every task posted to it, and the message loop of
\* the owner thread, which never ends here, runs every reply posted to it.
SpecUpdate ==
    /\ InitUpdate /\ [][NextUpdate]_vars
    /\ WF_vars(WorkerLaunch(MaxLaunches))
    /\ WF_vars(DeliverProcessLaunched)
    /\ WF_vars(WorkerTerminate)
    /\ WF_vars(WorkerRevalidate)
    /\ WF_vars(DeliverPortsRevalidated)

Next ==
    \/ Start
    \/ WorkerLaunch(MaxLaunches)
    \/ DeliverProcessLaunched
    \/ WorkerTerminate
    \/ WorkerRevalidate
    \/ DeliverPortsRevalidated
    \/ CheckProcessStatus
    \/ CheckServerHealth
    \/ HealthCheckCompletes
    \/ SetAllowRemotePref
    \/ SetRestartRequestedPref
    \/ RestartServerForUpdate
    \/ Shutdown
    \/ ProcessExits
    \/ GracePeriodElapses

Spec == Init /\ [][Next]_vars

(***************************************************************************)
(* ProcessControllerImpl::Launch (pure)                                    *)
(***************************************************************************)
\* Variant of Launch that always writes the primary resources directory to
\* the config file.
Launch_PrimaryResources(c) ==
    LET found == c.primary_exists \/ c.fallback_exists
        written == /\ found /\ ~c.execution_empty /\ c.create_ok
                   /\ c.write_ok
    IN [valid |-> written /\ c.spawn_ok,
        used_fallback |-> ~c.primary_exists,
        exe |-> IF ~written THEN "none"
                ELSE IF c.primary_exists THEN "primary" ELSE "fallback",
        resources |-> IF written THEN "primary" ELSE "none"]

\* Launch(config): the LaunchResult, with the binary handed to
\* base::LaunchProcess (exe) and the resources directory written to the
\* config file (resources); "none": the call returned before that point.
Launch(c) ==
    LET actual == IF c.primary_exists THEN "primary" ELSE "fallback"
        found == c.primary_exists \/ c.fallback_exists
        written == /\ found /\ ~c.execution_empty /\ c.create_ok
                   /\ c.write_ok
    IN [valid |-> written /\ c.spawn_ok,
        used_fallback |-> ~c.primary_exists,
        exe |-> IF written THEN actual ELSE "none",
        resources |-> IF written THEN actual ELSE "none"]

InitLaunch ==
    /\ InitSupervisor
    /\ prefs = Prefs(DefaultPrefPorts, FALSE, FALSE)
    /\ cmdline = CmdLine(NoOverrides, FALSE, FALSE)
    /\ occupied = {}
    /\ other_lock = FALSE
    /\ state_file = NoRecord
    /\ os_procs = [pid \in 1..MaxPid |-> NoEntry]
    /\ find = NoCall /\ kill_call = NoKillCall /\ proxy = NoProxy
    /\ launch_call \in {LaunchCall(p, f, x, d, w, l) :
                           p \in BOOLEAN, f \in BOOLEAN, x \in BOOLEAN,
                           d \in BOOLEAN, w \in BOOLEAN, l \in BOOLEAN}

\* The call returns.
CallLaunch ==
    /\ ~launch_call.called
    /\ launch_call' = [launch_call EXCEPT !.called = TRUE,
                                          !.result = Launch(launch_call)]
    /\ last' = Step("Launch", 0)
    /\ UNCHANGED <<vFlags, vPorts, vTimers, vMisc, vEnv, vAsync, vHist,
                   kill_call, proxy>>

NextLaunch == CallLaunch

SpecLaunch == InitLaunch /\ [][NextLaunch]_vars

(***************************************************************************)
(* server_utils::KillProcess, step by step                                 *)
(***************************************************************************)
InitKill ==
    /\ InitSupervisor
    /\ prefs = Prefs(DefaultPrefPorts, FALSE, FALSE)
    /\ cmdline = CmdLine(NoOverrides, FALSE, FALSE)
    /\ occupied = {}
    /\ other_lock = FALSE
    /\ state_file = NoRecord
    /\ os_procs = [pid \in 1..MaxPid |-> NoEntry]
    /\ find = NoCall /\ launch_call = NoLaunchCall /\ proxy = NoProxy
    /\ kill_call \in {KillCall(b, a, p, n) :
                         b \in {"posix", "win"}, a \in BOOLEAN,
                         p \in BOOLEAN, n \in 0..MaxPolls}

KillStep(op) ==
    /\ last' = Step(op, 0)
    /\ UNCHANGED <<vFlags, vPorts, vTimers, vMisc, vEnv, vAsync, vHist,
                   launch_call, proxy>>

KillReturn(value) == [kill_call EXCEPT !.pc = "done", !.result = value]

\* POSIX: kill(pid, SIGTERM).  ESRCH returns true, another error false.
SendSIGTERM ==
    /\ kill_call.platform = "posix" /\ kill_call.pc = "start"
    /\ kill_call' =
         IF ~kill_call.alive THEN KillReturn("true")
         ELSE IF ~kill_call.permitted THEN KillReturn("false")
         ELSE [kill_call EXCEPT !.graceful_sent = TRUE, !.pc = "wait"]
    /\ KillStep("SendSIGTERM")

\* POSIX: one iteration of the wait loop before the deadline:
\* ProcessExists(pid), then a sleep of 100 ms.
PollProcessExists ==
    /\ kill_call.pc = "wait" /\ kill_call.polls_left > 0
    /\ kill_call' =
         IF ~kill_call.alive THEN KillReturn("true")
         ELSE [kill_call EXCEPT !.polls_left = @ - 1]
    /\ KillStep("PollProcessExists")

\* POSIX: the deadline has passed: kill(pid, SIGKILL).  ESRCH returns true.
SendSIGKILL ==
    /\ kill_call.pc = "wait" /\ kill_call.polls_left = 0
    /\ kill_call' =
         IF ~kill_call.alive THEN KillReturn("true")
         ELSE [kill_call EXCEPT !.forceful_sent = TRUE, !.pc = "settle"]
    /\ KillStep("SendSIGKILL")

\* POSIX: after the sleep of 500 ms, return !ProcessExists(pid).
ReturnAfterSIGKILL ==
    /\ kill_call.pc = "settle"
    /\ kill_call' =
         KillReturn(IF kill_call.alive THEN "false" ELSE "true")
    /\ KillStep("ReturnAfterSIGKILL")

\* Windows: OpenProcess(PROCESS_TERMINATE).  No such process
\* (ERROR_INVALID_PARAMETER) returns true, another error false.
OpenProcessForTerminate ==
    /\ kill_call.platform = "win" /\ kill_call.pc = "start"
    /\ kill_call' =
         IF ~kill_call.alive THEN KillReturn("true")
         ELSE IF ~kill_call.permitted THEN KillReturn("false")
         ELSE [kill_call EXCEPT !.pc = "opened"]
    /\ KillStep("OpenProcessForTerminate")

\* Windows: TerminateProcess(handle, 1), which fails on a process that has
\* already terminated.
TerminateProcess ==
    /\ kill_call.pc = "opened"
    /\ kill_call' =
         IF ~kill_call.alive THEN KillReturn("false")
         ELSE [kill_call EXCEPT !.forceful_sent = TRUE, !.pc = "waiting"]
    /\ KillStep("TerminateProcess")

\* Windows: WaitForSingleObject(handle, graceful_timeout) returns; the
\* result is whether the process object was signaled.
ReturnAfterWait ==
    /\ kill_call.pc = "waiting"
    /\ kill_call' =
         KillReturn(IF kill_call.alive THEN "false" ELSE "true")
    /\ KillStep("ReturnAfterWait")

\* Environment: the process exits, of its own accord or because of a
\* signal it received.
KillTargetExits ==
    /\ kill_call.pc \notin {"idle", "done"}
    /\ kill_call.alive
    /\ kill_call' = [kill_call EXCEPT !.alive = FALSE]
    /\ KillStep("KillTargetExits")

NextKill ==
    \/ SendSIGTERM
    \/ PollProcessExists
    \/ SendSIGKILL
    \/ ReturnAfterSIGKILL
    \/ OpenProcessForTerminate
    \/ TerminateProcess
    \/ ReturnAfterWait
    \/ KillTargetExits

SpecKill == InitKill /\ [][NextKill]_vars

(***************************************************************************)
(* BrowserOSServerProxy                                                    *)
(***************************************************************************)
HTTP_OK == 200
HTTP_FORBIDDEN == 403
HTTP_SERVICE_UNAVAILABLE == 503
ProxyPort == kDefaultMCPPort
BackendPortChoices == {0, kDefaultMCPPort + 1}

\* A request as OnHttpRequest receives it on connection conn, with the
\* values of allow_remote_ and backend_port_ at that moment.  decision:
\* "rejected" (403), "unavailable" (503 from ForwardRequest) or
\* "forwarded" (a loader was created); loader: "none", "pending" (owned by
\* pending_loaders_), "destroyed" (deleted before its callback ran) or
\* "completed" (its callback ran); responses: the status codes sent for it.
Request(conn, loopback, allow_remote, backend_port) ==
    [conn |-> conn, loopback |-> loopback, allow_remote |-> allow_remote,
     backend_port |-> backend_port, decision |-> "none", loader |-> "none",
     responses |-> <<>>]

\* Variant of the peer check that ignores allow_remote_.
RejectsPeer_LoopbackOnly(allow_remote, loopback) == ~loopback

\* The condition of OnHttpRequest under which the request is refused.
RejectsPeer(allow_remote, loopback) == ~allow_remote /\ ~loopback

\* Deleting the SimpleURLLoader of request i cancels it: its callback
\* never runs.
DestroyLoader(reqs, i) ==
    IF i = 0 THEN reqs ELSE [reqs EXCEPT ![i].loader = "destroyed"]

\* server->SendResponse(connection_id, response) for request i; the
\* HttpServer ignores a connection id it does not know.
SendResponse(px, i, code) ==
    LET c == px.reqs[i].conn
    IN IF px.conns[c] = "open"
       THEN [px EXCEPT !.reqs[i].responses = Append(@, code)]
       ELSE [px EXCEPT !.late_response = TRUE]

\* OnClose(connection_id): pending_loaders_.erase(connection_id).
ProxyOnClose(px, c) ==
    [px EXCEPT !.pending_loaders_[c] = 0,
               !.reqs = DestroyLoader(@, px.pending_loaders_[c])]

\* HttpServer::Close(connection_id): the connection is dropped and the
\* delegate's OnClose is called.
ServerClose(px, c) ==
    ProxyOnClose([px EXCEPT !.conns[c] = "closed"], c)

\* ForwardRequest(connection_id, info) for request i.
ForwardRequest(px, i) ==
    LET c == px.reqs[i].conn
    IN IF px.backend_port_ <= 0 \/ ~px.url_loader_factory_
       THEN SendResponse([px EXCEPT !.reqs[i].decision = "unavailable"],
                         i, HTTP_SERVICE_UNAVAILABLE)
       ELSE [px EXCEPT
               !.reqs = [DestroyLoader(@, px.pending_loaders_[c])
                           EXCEPT ![i].decision = "forwarded",
                                  ![i].loader = "pending"],
               !.pending_loaders_[c] = i]

InitProxy ==
    /\ InitSupervisor
    /\ prefs = Prefs(DefaultPrefPorts, FALSE, FALSE)
    /\ cmdline = CmdLine(NoOverrides, FALSE, FALSE)
    /\ occupied = {}
    /\ other_lock = FALSE
    /\ state_file = NoRecord
    /\ os_procs = [pid \in 1..MaxPid |-> NoEntry]
    /\ find = NoCall /\ launch_call = NoLaunchCall
    /\ kill_call = NoKillCall
    /\ proxy \in {[NoProxy EXCEPT !.backend_reachable = b] : b \in BOOLEAN}

ProxyStep(op) ==
    /\ last' = Step(op, 0)
    /\ UNCHANGED <<vFlags, vPorts, vTimers, vMisc, vEnv, vAsync, vHist,
                   launch_call, kill_call>>

\* Start(port, pending_factory); bind_ok: ListenWithAddressAndPort
\* returned net::OK.
ProxyStart ==
    \E bind_ok \in BOOLEAN :
        /\ proxy' =
             IF proxy.server_ THEN proxy
             ELSE IF ~bind_ok
                  THEN [proxy EXCEPT !.url_loader_factory_ = TRUE]
                  ELSE [proxy EXCEPT !.url_loader_factory_ = TRUE,
                                     !.server_ = TRUE,
                                     !.bound_port_ = ProxyPort]
        /\ ProxyStep("ProxyStart")

\* Stop(): every loader is deleted and the HttpServer, with its
\* connections, is destroyed.
ProxyStop ==
    /\ proxy' =
         [proxy EXCEPT
            !.pending_loaders_ = [c \in Conns |-> 0],
            !.reqs = [i \in DOMAIN @ |->
                        IF @[i].loader = "pending"
                        THEN [@[i] EXCEPT !.loader = "destroyed"]
                        ELSE @[i]],
            !.server_ = FALSE,
            !.bound_port_ = 0,
            !.url_loader_factory_ = FALSE,
            !.conns = [c \in Conns |->
                         IF @[c] = "open" THEN "closed" ELSE @[c]]]
    /\ ProxyStep("ProxyStop")

SetBackendPort ==
    \E port \in BackendPortChoices :
        /\ proxy' = [proxy EXCEPT !.backend_port_ = port]
        /\ ProxyStep("SetBackendPort")

SetAllowRemote ==
    \E allow \in BOOLEAN :
        /\ proxy' = [proxy EXCEPT !.allow_remote_ = allow]
        /\ ProxyStep("SetAllowRemote")

\* The HttpServer accepts a connection and gives it the next id;
\* OnConnect does nothing.
OnConnect ==
    \E c \in Conns, loopback \in BOOLEAN :
        /\ proxy.server_
        /\ proxy.conns[c] = "new"
        /\ \A d \in Conns : d < c => proxy.conns[d] # "new"
        /\ proxy' = [proxy EXCEPT !.conns[c] = "open",
                                  !.peer_loopback[c] = loopback]
        /\ ProxyStep("OnConnect")

\* OnHttpRequest(connection_id, info), ForwardRequest included.  The
\* HttpServer hands over each request as it is parsed, whether or not the
\* previous one on the connection has been answered.
OnHttpRequest ==
    \E c \in Conns :
        /\ proxy.server_
        /\ proxy.conns[c] = "open"
        /\ Len(proxy.reqs) < MaxRequests
        /\ LET i == Len(proxy.reqs) + 1
               received ==
                   [proxy EXCEPT
                      !.reqs = Append(@, Request(c, proxy.peer_loopback[c],
                                                 proxy.allow_remote_,
                                                 proxy.backend_port_))]
           IN proxy' =
                IF RejectsPeer(proxy.allow_remote_, proxy.peer_loopback[c])
                THEN ServerClose(
                         SendResponse(
                             [received EXCEPT
                                !.reqs[i].decision = "rejected"],
                             i, HTTP_FORBIDDEN), c)
                ELSE ForwardRequest(received, i)
        /\ ProxyStep("OnHttpRequest")

\* OnBackendResponse(connection_id, response_body): the callback of the
\* loader of request i.  answered: a body and a response code arrived.
OnBackendResponse ==
    \E i \in DOMAIN proxy.reqs, answered \in BOOLEAN :
        /\ proxy.reqs[i].loader = "pending"
        /\ answered => proxy.backend_reachable
        /\ LET c == proxy.reqs[i].conn
               j == proxy.pending_loaders_[c]
               erased == [proxy EXCEPT !.pending_loaders_[c] = 0,
                                       !.reqs[j].loader = "completed"]
           IN proxy' =
                IF j = 0 \/ ~proxy.server_ THEN proxy
                ELSE SendResponse(erased, j,
                                  IF answered THEN HTTP_OK
                                  ELSE HTTP_SERVICE_UNAVAILABLE)
        /\ ProxyStep("OnBackendResponse")

\* The peer closes connection c: the HttpServer drops it and calls
\* OnClose.
OnClose ==
    \E c \in Conns :
        /\ proxy.server_
        /\ proxy.conns[c] = "open"
        /\ proxy' = ServerClose(proxy, c)
        /\ ProxyStep("OnClose")

NextProxy ==
    \/ ProxyStart
    \/ ProxyStop
    \/ SetBackendPort
    \/ SetAllowRemote
    \/ OnConnect
    \/ OnHttpRequest
    \/ OnBackendResponse
    \/ OnClose

SpecProxy == InitProxy /\ [][NextProxy]_vars

(***************************************************************************)
(* Properties                                                              *)
(***************************************************************************)
PortsPairwiseDistinct ==
    Cardinality({cdp_port_, mcp_port_, agent_port_, extension_port_}) = 4

\* C1: once Start() has resolved the ports, and after every revalidation
\* of a restart, the four ports the supervisor holds are pairwise distinct,
\* whatever the persisted preferences and the ports other processes hold
\* (stated for runs without --*-port switches).
C1_PortsPairwiseDistinct ==
    (host # "init" /\ cmdline.ports = NoOverrides) => PortsPairwiseDistinct

\* C2: orphan recovery kills the recorded pid only if, when it ran, a
\* process with that pid existed, the OS gave its creation time, and that
\* time equalled the recorded one.
C2_KillOnlyOwnOrphan ==
    orphan.killed =>
        /\ orphan.record.present
        /\ orphan.entry.exists
        /\ orphan.entry.creation_time # 0
        /\ orphan.entry.creation_time = orphan.record.creation_time

\* Recovery killed a process whose pid and creation time matched the record.
C2_Witness ==
    /\ orphan.ran /\ orphan.killed
    /\ last.op = "RecoverFromOrphan"
    /\ orphan.entry.creation_time = orphan.record.creation_time

\* C3: a health-check failure completion or a process-exit notification
\* handled while is_restarting_ is set starts nothing: it posts no task
\* (no termination, no revalidation, no launch) and spawns no process.
C3_SingleRestartInFlight ==
    [][(/\ last'.restarting
        /\ \/ last'.op = "OnProcessExited"
           \/ last'.op = "OnHealthCheckComplete" /\ last'.arg = 0)
       => (pool' = pool /\ replies' = replies /\ procs' = procs)]_vars

\* A failed health check completed while the supervisor was running and a
\* restart was already in progress.
C3_Witness ==
    /\ last.op = "OnHealthCheckComplete" /\ last.arg = 0
    /\ last.restarting
    /\ is_running_

\* C4: at every moment at most one sidecar process spawned by this
\* supervisor is alive.
C4_AtMostOneLiveSidecar == Cardinality(AliveProcs) <= 1

\* C5: handling an exit with code 0 starts no restart: it posts no task,
\* leaves is_restarting_ as it was and spawns nothing, whatever the failure
\* counter and the uptime.
C5_CleanExitNeverRestarts ==
    [][(last'.op = "OnProcessExited" /\ last'.arg = kExitCodeSuccess)
       => (/\ pool' = pool /\ replies' = replies /\ procs' = procs
           /\ is_restarting_' = is_restarting_)]_vars

\* An exit with code 0 was handled while the startup-failure counter was
\* not zero.
C5_Witness ==
    /\ last.op = "OnProcessExited" /\ last.arg = kExitCodeSuccess
    /\ consecutive_startup_failures_ > 0
    /\ ~is_restarting_

\* C6: when three consecutive launches have each ended in a non-zero exit
\* within the grace period, InvalidateDownloadedVersion has been called
\* for that run exactly once, at the third exit, and the startup-failure
\* counter is zero after the third exit.
C6_RollbackAtThirdEarlyExit ==
    /\ streak >= kMaxStartupFailures =>
           rollback_at \cap (1..kMaxStartupFailures) = {kMaxStartupFailures}
    /\ (/\ last.op = "OnProcessExited"
        /\ last_exit_counted
        /\ streak = kMaxStartupFailures)
       => consecutive_startup_failures_ = 0

\* C7: this host process and another one never both hold the lock of the
\* execution directory.
C7_LockMutualExclusion == ~(lock_file_ /\ other_lock)

\* The other host process tried to take the lock while this one held it,
\* and did not get it.
C7_Witness ==
    /\ last.op = "OtherInstanceStarts"
    /\ lock_file_
    /\ ~other_lock

\* C8: a supervisor whose AcquireLock() failed in Start() never spawns a
\* sidecar process.
C8_NoLaunchAfterLockFailure ==
    start_outcome = "lock_failed" => Len(procs) = 0

\* C9: with the disable switch, Start() persists the resolved ports, and
\* from then on no sidecar process is spawned and the lock is not taken.
C9_DisabledNeverLaunches ==
    start_outcome = "disabled" =>
        /\ Len(procs) = 0
        /\ ~lock_file_
        /\ prefs.cdp = cdp_port_ /\ prefs.mcp = mcp_port_
        /\ prefs.agent = agent_port_ /\ prefs.extension = extension_port_

\* C10: when Shutdown() has returned, is_running_ is false, both timers
\* are stopped and the lock file is released, whatever the state it was
\* called in.
C10_ShutdownReleasesEverything ==
    last.op = "Stop" =>
        /\ ~is_running_
        /\ ~health_check_timer_ /\ ~process_check_timer_
        /\ ~lock_file_

\* C11: while a restart sequence is under way, is_restarting_ is set.  The
\* sequence is under way at least as long as its terminate-and-revalidate
\* task or its OnPortsRevalidated reply is pending: the launch it issues
\* has then not even been posted, and no other event may clear the flag.
C11_RestartingHeldThroughSequence ==
    (\/ \E t \in BagToSet(pool) :
           t.kind \in {"restart", "restart_killed", "revalidate"}
     \/ \E r \in BagToSet(replies) : r.kind = "OnPortsRevalidated")
    => is_restarting_

\* C12: the failed health check that is the third in a row (no success in
\* between), handled while no restart is in progress, starts a restart
\* with revalidate_all = true.
C12_ThirdFailureRevalidatesAll ==
    [][(/\ last'.op = "OnHealthCheckComplete" /\ last'.arg = 0
        /\ ~last'.restarting
        /\ health_failures = kMaxHealthCheckFailures - 1
        /\ health_failures' = kMaxHealthCheckFailures)
       => \E t \in BagToSet(pool') :
             /\ t.kind = "restart" /\ t.flag
             /\ CopiesIn(t, pool') > CopiesIn(t, pool)]_vars

\* C13: a failed health check that is the first or the second in a row
\* starts no restart: it posts no task, does not set is_restarting_, and
\* no sidecar is terminated or spawned because of it.
C13_IsolatedFailureNoRestart ==
    [][(/\ last'.op = "OnHealthCheckComplete" /\ last'.arg = 0
        /\ health_failures' > health_failures
        /\ health_failures' < kMaxHealthCheckFailures)
       => (/\ pool' = pool /\ replies' = replies /\ procs' = procs
           /\ is_restarting_' = is_restarting_)]_vars

\* C14: when some port p with starting_port <= p <= starting_port + 99 and
\* p <= 65535 is not excluded and is available (not below 1024, allowed
\* for the scheme, not held by another process), FindAvailablePort returns
\* the smallest such port.
C14_FindsSmallestQualifyingPort ==
    find.called =>
        LET window == {p \in find.starting_port ..
                                find.starting_port + kMaxPortAttempts - 1 :
                         p <= kMaxPort}
            qualifying == {p \in window :
                             /\ p \notin find.excluded_ports
                             /\ p >= kWellKnownPortLimit
                             /\ p \notin RestrictedPorts
                             /\ p \notin find.occ}
        IN qualifying # {} =>
               /\ find.result \in qualifying
               /\ \A p \in qualifying : find.result <= p

\* The starting port was held by another process and the call returned a
\* later port.
C14_Witness ==
    /\ find.called
    /\ find.starting_port \in find.occ
    /\ find.result > find.starting_port

\* C15: when no port of the scan window qualifies, FindAvailablePort
\* returns the starting port itself, whatever it is.
C15_ExhaustedScanReturnsPreferred ==
    find.called =>
        LET window == {p \in find.starting_port ..
                                find.starting_port + kMaxPortAttempts - 1 :
                         p <= kMaxPort}
        IN (\A p \in window :
               \/ p \in find.excluded_ports
               \/ p < kWellKnownPortLimit
               \/ p \in RestrictedPorts
               \/ p \in find.occ)
           => find.result = find.starting_port

\* A scan from an excluded and occupied starting port found nothing and
\* returned that starting port.
C15_Witness ==
    /\ find.called
    /\ find.starting_port \in find.excluded_ports
    /\ find.starting_port \in find.occ
    /\ find.result = find.starting_port

C17_UpdateRefusedWhileBusy ==
    [][(/\ last'.op = "RestartServerForUpdate"
        /\ (is_restarting_ \/ is_updating_))
       => (/\ last'.arg = 0
           /\ UNCHANGED <<vFlags, vPorts, vTimers, process_,
                          update_complete_callback_, pool, replies,
                          procs>>)]_vars

\* A second update request was refused while the first one was in flight
\* with its callback stored.
C17_Witness ==
    /\ last.op = "RestartServerForUpdate" /\ last.arg = 0
    /\ is_updating_
    /\ update_complete_callback_

\* C18: the callback RestartServerForUpdate has stored is eventually run
\* (and, being a OnceCallback, cleared by that run), also when the
\* relaunch cannot be started.
C18_UpdateCallbackEventuallyRun ==
    update_complete_callback_ ~> ~update_complete_callback_

\* C19: a non-zero exit handled while no restart is in progress posts a
\* revalidation with revalidate_all = true exactly when the exit code is
\* 2.  A revalidation with revalidate_all = true re-resolves the mcp,
\* agent and extension ports (none of the ports it returns is held by
\* another process); one with revalidate_all = false returns the mcp port
\* as it was.
C19_ExitCodeSelectsRevalidation ==
    [][/\ (/\ last'.op = "OnProcessExited"
           /\ last'.arg # kExitCodeSuccess
           /\ ~last'.restarting)
          => \E t \in BagToSet(pool') :
                /\ CopiesIn(t, pool') > CopiesIn(t, pool)
                /\ t.kind = "revalidate"
                /\ t.flag = (last'.arg = kExitCodePortConflict)
       /\ last'.op = "WorkerRevalidate"
          => \E r \in BagToSet(replies') :
                /\ CopiesIn(r, replies') > CopiesIn(r, replies)
                /\ r.kind = "OnPortsRevalidated"
                /\ IF last'.arg = 1
                   THEN {r.mcp, r.agent, r.extension} \cap occupied = {}
                   ELSE r.mcp = mcp_port_]_vars

\* After an exit with code 2 the revalidation moved the mcp port, which
\* another process held.
C19_Witness ==
    /\ last.op = "WorkerRevalidate" /\ last.arg = 1
    /\ mcp_port_ \in occupied
    /\ \E r \in BagToSet(replies) :
          r.kind = "OnPortsRevalidated" /\ r.mcp # mcp_port_

\* C20: for every port with a valid --*-port switch, every launch the
\* supervisor posts (the initial one and every relaunch) passes the value
\* of the switch, whether or not that port is available.
C20_OverrideAlwaysWins ==
    \A t \in BagToSet(pool) :
        t.kind = "launch" =>
            LET ov == cmdline.ports IN
            /\ GetPortOverrideFromCommandLine(ov.cdp) > 0 => t.cdp = ov.cdp
            /\ GetPortOverrideFromCommandLine(ov.mcp) > 0 => t.mcp = ov.mcp
            /\ GetPortOverrideFromCommandLine(ov.agent) > 0
                  => t.agent = ov.agent
            /\ GetPortOverrideFromCommandLine(ov.extension) > 0
                  => t.extension = ov.extension

\* C21: when a launch completes with an invalid process handle, is_restarting_
\* and is_updating_ are both false afterwards, the CDP listener and cdp_port_
\* are left as they were, and the update-complete callback is run with false
\* exactly when is_updating_ was set as the result arrived (and is never run
\* with true).
C21_InvalidLaunchClearsFlags ==
    [][(\E r \in BagToSet(replies) :
           /\ r.kind = "OnProcessLaunched" /\ r.pid = 0
           /\ replies' = Take(replies, r)
           /\ last'.op = "OnProcessLaunched")
       => /\ ~is_restarting_' /\ ~is_updating_'
          /\ cdp_server' = cdp_server /\ cdp_port_' = cdp_port_
          /\ (last'.callback = "false") <=> is_updating_
          /\ last'.callback # "true"
          /\ ~update_complete_callback_']_vars

\* An invalid launch result arrived during an update restart and the
\* callback was run with false, the CDP listener still being up.
C21_Witness ==
    /\ last.op = "OnProcessLaunched" /\ last.callback = "false"
    /\ last.restarting
    /\ ~is_restarting_ /\ ~is_updating_ /\ cdp_server # 0

\* C22: a health probe that fails after the sidecar it was issued against
\* has been replaced by another one never starts a restart.
C22_StaleProbeNeverRestarts ==
    [][\A probe \in health_inflight \ health_inflight' :
          (last'.op = "OnHealthCheckComplete" /\ last'.arg = 0
           /\ probe # process_)
          => /\ pool' = pool
             /\ is_restarting_' = is_restarting_]_vars

\* C23: the steps that run on a thread-pool worker (the launch, the
\* terminate-and-wait, the port revalidation) write none of is_running_,
\* is_restarting_, is_updating_, process_ and the four ports.
C23_WorkersWriteNoSupervisorState ==
    [][last'.op \in {"WorkerLaunch", "WorkerTerminate", "WorkerRevalidate"}
       => UNCHANGED <<vFlags, process_, vPorts>>]_vars

\* C24: under fair scheduling of the thread pool and of the owner thread,
\* whenever is_restarting_ is set it is later cleared.
C24_RestartingEventuallyCleared == is_restarting_ ~> ~is_restarting_

\* C25: OnProcessLaunched resets restart_requested only at the completion
\* of the relaunch of the restart that the request started: at the reset
\* the restart sequence is not still on its way to its relaunch (its
\* terminate-and-revalidate task or its OnPortsRevalidated reply pending).
C25_RestartRequestedResetByItsRestart ==
    [][(/\ prefs.restart_requested /\ ~prefs'.restart_requested
        /\ last'.op = "OnProcessLaunched")
       => /\ \A t \in BagToSet(pool') : t.kind = "launch"
          /\ \A r \in BagToSet(replies') : r.kind # "OnPortsRevalidated"]_vars

\* C26: once a launch has completed with a valid process, server.state
\* holds the record of that sidecar.
C26_RecordWrittenAfterLaunch ==
    (last.op = "OnProcessLaunched" /\ is_running_ /\ process_ # 0)
    => (state_file.present /\ state_file.pid = process_)

\* C27: a port revalidation never changes the CDP port (neither the worker
\* step that computes it nor OnPortsRevalidated that applies it touches
\* cdp_port_ or the listener, and the relaunch is given the same CDP
\* port), and a revalidation with revalidate_all = false returns the MCP
\* port it was given.
C27_RevalidationKeepsCdpAndLightMcp ==
    [][/\ last'.op \in {"WorkerTerminate", "WorkerRevalidate"}
          => /\ cdp_port_' = cdp_port_ /\ cdp_server' = cdp_server
             /\ \A t \in BagToSet(pool), r \in BagToSet(replies') :
                  (/\ CopiesIn(t, pool') < CopiesIn(t, pool)
                   /\ CopiesIn(r, replies') > CopiesIn(r, replies)
                   /\ ~t.flag)
                  => r.mcp = t.mcp
       /\ last'.op = "OnPortsRevalidated"
          => /\ cdp_port_' = cdp_port_ /\ cdp_server' = cdp_server
             /\ \A t \in BagToSet(pool') :
                  CopiesIn(t, pool') > CopiesIn(t, pool)
                  => t.cdp = ToUint16(cdp_port_)]_vars

\* A revalidation with revalidate_all = false has run while the MCP port
\* was occupied: it moved the agent port and kept the MCP port.
C27_Witness ==
    /\ last.op = "WorkerRevalidate" /\ last.arg = 0
    /\ mcp_port_ \in occupied
    /\ \E r \in BagToSet(replies) :
         /\ r.kind = "OnPortsRevalidated"
         /\ r.mcp = mcp_port_ /\ r.agent # agent_port_

\* C28: in every state where is_restarting_ is set both timers are stopped,
\* and a timer goes from stopped to running only in an OnProcessLaunched
\* step that stores a valid process, which leaves is_restarting_ false.
C28_TimersStoppedWhileRestarting ==
    [][/\ is_restarting_'
          => (~health_check_timer_' /\ ~process_check_timer_')
       /\ (\/ health_check_timer_' /\ ~health_check_timer_
           \/ process_check_timer_' /\ ~process_check_timer_)
          => /\ last'.op = "OnProcessLaunched"
             /\ process_' # 0 /\ is_running_'
             /\ ~is_restarting_']_vars

\* A restart has just been started on a running sidecar by a failed probe
\* or a preference change, and the timers are stopped.
C28_Witness ==
    /\ is_restarting_ /\ ~last.restarting
    /\ last.op \in {"OnHealthCheckComplete", "SetRestartRequestedPref",
                    "SetAllowRemotePref"}
    /\ is_running_ /\ process_ # 0
    /\ ~health_check_timer_ /\ ~process_check_timer_

\* C29: whenever a launch is issued, the four port preferences hold the
\* four values passed to that launch.
C29_PrefsEqualLaunchPorts ==
    [][\A t \in BagToSet(pool') :
          (t.kind = "launch" /\ CopiesIn(t, pool') > CopiesIn(t, pool))
          => /\ t.cdp = prefs'.cdp /\ t.mcp = prefs'.mcp
             /\ t.agent = prefs'.agent
             /\ t.extension = prefs'.extension]_vars

\* C30: with no command-line override, every port passed to a launch and
\* the port given to the CDP listener lies in kWellKnownPortLimit..kMaxPort
\* and equals the value the supervisor stores, whatever the preferences
\* held.
C30_LaunchPortsInRangeAndStored ==
    [][/\ \A t \in BagToSet(pool') :
            (t.kind = "launch" /\ CopiesIn(t, pool') > CopiesIn(t, pool))
            => /\ {t.cdp, t.mcp, t.agent, t.extension}
                      \subseteq kWellKnownPortLimit..kMaxPort
               /\ t.cdp = cdp_port_' /\ t.mcp = mcp_port_'
               /\ t.agent = agent_port_'
               /\ t.extension = extension_port_'
       /\ cdp_server' # cdp_server
            => /\ cdp_server' \in kWellKnownPortLimit..kMaxPort
               /\ cdp_server' = cdp_port_']_vars

\* C35: once Shutdown() has been called, no sidecar spawned by the
\* supervisor is alive, whatever was in flight at the call.
C35_NoSidecarAfterShutdown == host = "shutdown" => AliveProcs = {}

\* C36: when a launch completes after the previous sidecar had run past
\* the grace period and had not ended in a counted (non-zero, early) exit,
\* the startup-failure counter is zero.
C36_CounterZeroAfterSurvivingLaunch ==
    [][(/\ last'.op = "OnProcessLaunched"
        /\ process_ # 0 /\ process_' # process_
        /\ past_grace /\ ~last_exit_counted)
       => consecutive_startup_failures_' = 0]_vars

\* C37: whenever a sidecar is running with no restart in flight (no restart
\* flag, no task and no reply pending), it was launched with allow_remote
\* equal to the current value of the preference.
C37_RunningSidecarHasCurrentAllowRemote ==
    (/\ host = "running" /\ pref_change_registrar_
     /\ is_running_ /\ ~is_restarting_
     /\ process_ # 0 /\ procs[process_].status = "alive"
     /\ pool = EmptyBag /\ replies = EmptyBag)
    => procs[process_].allow_remote = prefs.allow_remote

\* C38: the update-complete callback is run with true only when the restart
\* sequences have reached their relaunch: at that step no
\* terminate-and-revalidate task and no OnPortsRevalidated reply is still
\* pending, so the completed launch was issued after the old process was
\* stopped for the update.
C38_UpdateSuccessOnlyForOwnLaunch ==
    [][(last'.op = "OnProcessLaunched" /\ last'.callback = "true")
       => /\ \A t \in BagToSet(pool') : t.kind = "launch"
          /\ \A r \in BagToSet(replies') :
               r.kind # "OnPortsRevalidated"]_vars

\* C39: right after a launch has failed (invalid process handle),
\* is_running_ is false and both timers are stopped.
C39_QuiescentAfterFailedLaunch ==
    [][(\E r \in BagToSet(replies) :
           /\ r.kind = "OnProcessLaunched" /\ r.pid = 0
           /\ replies' = Take(replies, r)
           /\ last'.op = "OnProcessLaunched")
       => /\ ~is_running_'
          /\ ~health_check_timer_' /\ ~process_check_timer_']_vars

\* C33: Launch sets used_fallback exactly when the primary binary does not
\* exist; the binary it spawns and the resources directory it writes to the
\* config file come from the same source, the fallback one exactly when
\* used_fallback; and when neither binary exists, the execution directory
\* is empty or cannot be created, or the config cannot be written, nothing
\* is spawned and the handle returned is invalid.
C33_LaunchFallbackAndFailures ==
    launch_call.called =>
        LET c == launch_call
            r == launch_call.result
        IN /\ r.used_fallback <=> ~c.primary_exists
           /\ r.exe = r.resources
           /\ r.exe # "none"
                => r.exe = IF r.used_fallback THEN "fallback" ELSE "primary"
           /\ (\/ ~c.primary_exists /\ ~c.fallback_exists
               \/ c.execution_empty \/ ~c.create_ok \/ ~c.write_ok)
                => (r.exe = "none" /\ ~r.valid)
           /\ r.valid => r.exe # "none"

\* The primary binary was missing and the fallback binary was spawned with
\* the fallback resources directory.
C33_Witness ==
    /\ launch_call.called
    /\ ~launch_call.primary_exists /\ launch_call.fallback_exists
    /\ launch_call.result.valid /\ launch_call.result.used_fallback
    /\ launch_call.result.exe = "fallback"
    /\ launch_call.result.resources = "fallback"

\* C34: KillProcess sends the forceful kill only after the graceful signal
\* was sent and the process was still alive through the whole graceful
\* timeout, and it returns true exactly when the process is gone when it
\* returns.
C34_ForcefulOnlyAfterGracefulTimeout ==
    /\ kill_call.forceful_sent
         => (kill_call.graceful_sent /\ kill_call.polls_left = 0)
    /\ kill_call.pc = "done"
         => (kill_call.result = "true" <=> ~kill_call.alive)

\* C32: a request received from a non-loopback peer while allow_remote is
\* false is never forwarded: it is answered 403 and its connection is
\* closed; a request received while allow_remote is true, or from a
\* loopback peer, is accepted and handed to the forwarding step, whatever
\* allow_remote becomes afterwards.
C32_LoopbackOnlyUnlessAllowRemote ==
    \A i \in DOMAIN proxy.reqs :
        LET r == proxy.reqs[i]
        IN /\ (~r.allow_remote /\ ~r.loopback)
                => /\ r.decision = "rejected"
                   /\ r.loader = "none"
                   /\ r.responses = <<HTTP_FORBIDDEN>>
                   /\ proxy.conns[r.conn] = "closed"
           /\ (r.allow_remote \/ r.loopback)
                => /\ r.decision \in {"forwarded", "unavailable"}
                   /\ r.backend_port > 0 => r.decision = "forwarded"

\* A remote request was refused while allow_remote was false and another
\* remote request was forwarded while it was true.
C32_Witness ==
    \E i, j \in DOMAIN proxy.reqs :
        /\ ~proxy.reqs[i].loopback /\ ~proxy.reqs[i].allow_remote
        /\ proxy.reqs[i].decision = "rejected"
        /\ ~proxy.reqs[j].loopback /\ proxy.reqs[j].allow_remote
        /\ proxy.reqs[j].decision = "forwarded"

\* C40: every forwarded request whose connection is still open (the proxy
\* not stopped) and whose loader is no longer pending has received exactly
\* one response, the backend's or 503; no request receives more than one;
\* and no response is sent for a connection after OnClose for it.
C40_ExactlyOneResponsePerForwardedRequest ==
    /\ \A i \in DOMAIN proxy.reqs :
          LET r == proxy.reqs[i]
          IN /\ Len(r.responses) <= 1
             /\ (/\ r.decision = "forwarded"
                 /\ proxy.conns[r.conn] = "open"
                 /\ r.loader # "pending")
                  => /\ Len(r.responses) = 1
                     /\ r.responses[1] \in {HTTP_OK, HTTP_SERVICE_UNAVAILABLE}
    /\ ~proxy.late_response

\* C31: a request accepted while backend_port_ <= 0 is answered 503 at
\* once and is never forwarded; and while the backend is unreachable every
\* forwarded request whose connection is still open is answered 503 once
\* its loader is no longer pending.
C31_UnavailableWhenNoBackend ==
    \A i \in DOMAIN proxy.reqs :
        LET r == proxy.reqs[i]
        IN /\ (r.decision # "rejected" /\ r.backend_port <= 0)
                => /\ r.decision = "unavailable"
                   /\ r.loader = "none"
                   /\ r.responses = <<HTTP_SERVICE_UNAVAILABLE>>
           /\ r.decision = "forwarded" => r.backend_port > 0
           /\ (/\ r.decision = "forwarded"
               /\ ~proxy.backend_reachable
               /\ proxy.conns[r.conn] = "open"
               /\ r.loader # "pending")
                => r.responses = <<HTTP_SERVICE_UNAVAILABLE>>
====
